---- MODULE Spec2Model ----
(***************************************************************************)
(* Model of the jsonapi package (proto-studio/jsonapi): the error          *)
(* translator, the header validator, the context-aware query rule sets,    *)
(* the resource-linkage and relationship rule sets, the resource-object    *)
(* (datum) rule set and the Datum JSON codec.                              *)
(*                                                                         *)
(* Strings whose characters matter to the code (paths, member names,       *)
(* struct tags) are sequences of one-character strings.  Every pure        *)
(* operation is an operator; a call is one action that applies it to the   *)
(* input drawn in Init.  relationshipRuleSetImpl.Apply mutates its input   *)
(* map, so it is also modelled step by step for concurrent callers.        *)
(***************************************************************************)
EXTENDS Integers, Sequences, FiniteSets, TLC

VARIABLES pc, op, input, output, shared, proc

vars == <<pc, op, input, output, shared, proc>>

\* ------------------------------------------------------------------------
\* Bounds
\* ------------------------------------------------------------------------
MaxPathLen == 2
MaxProcs == 2
MaxValues == 2

\* ------------------------------------------------------------------------
\* Strings as character sequences
\* ------------------------------------------------------------------------
HasPrefix(s, p) == Len(s) >= Len(p) /\ SubSeq(s, 1, Len(p)) = p

HasSuffix(s, p) == Len(s) >= Len(p) /\ SubSeq(s, Len(s) - Len(p) + 1, Len(s)) = p

TrimPrefix(s, p) == IF HasPrefix(s, p) THEN SubSeq(s, Len(p) + 1, Len(s)) ELSE s

RECURSIVE Join(_, _)
Join(segs, sep) ==
  IF segs = <<>> THEN <<>>
  ELSE IF Len(segs) = 1 THEN segs[1]
  ELSE segs[1] \o sep \o Join(Tail(segs), sep)

\* Index of the first occurrence of character c in s (1-based), 0 when absent.
RECURSIVE IndexFrom(_, _, _)
IndexFrom(s, c, i) ==
  IF i > Len(s) THEN 0
  ELSE IF s[i] = c THEN i
  ELSE IndexFrom(s, c, i + 1)

Index(s, c) == IndexFrom(s, c, 1)

\* The characters of cs as one string.
RECURSIVE Concat(_)
Concat(cs) == IF cs = <<>> THEN "" ELSE cs[1] \o Concat(Tail(cs))

LowerAZ == {"a","b","c","d","e","f","g","h","i","j","k","l","m",
            "n","o","p","q","r","s","t","u","v","w","x","y","z"}

UpperAZ == {"A","B","C","D","E","F","G","H","I","J","K","L","M",
            "N","O","P","Q","R","S","T","U","V","W","X","Y","Z"}

Digits == {"0","1","2","3","4","5","6","7","8","9"}

\* ------------------------------------------------------------------------
\* Error translator (errors.go)
\* ------------------------------------------------------------------------
SourcePointer == "pointer"
SourceParameter == "parameter"
SourceHeader == "header"

\* Error.Source, Error.Links and Error.Meta are pointers: nil is "not present".
NoSource == [present |-> FALSE, pointer |-> <<>>, parameter |-> <<>>, header |-> <<>>]
NoLinks == [present |-> FALSE, about |-> "", type |-> ""]
NoMeta == {}

\* RFC 6901 escaping of one path segment, as the JSON Pointer serializer does.
RECURSIVE EscapeSegment(_)
EscapeSegment(s) ==
  IF s = <<>> THEN <<>>
  ELSE (IF s[1] = "~" THEN <<"~", "0">>
        ELSE IF s[1] = "/" THEN <<"~", "1">>
        ELSE <<s[1]>>) \o EscapeSegment(Tail(s))

RECURSIVE EscapeAll(_)
EscapeAll(segs) ==
  IF segs = <<>> THEN <<>> ELSE <<EscapeSegment(segs[1])>> \o EscapeAll(Tail(segs))

\* ve.Path(): the default serialization of the context path.
DefaultPath(segs) == IF segs = <<>> THEN <<>> ELSE <<"/">> \o Join(segs, <<"/">>)

\* ve.PathAs(jsonPointerSerializer).
jsonPointerSerializer(segs) ==
  IF segs = <<>> THEN <<>> ELSE <<"/">> \o Join(EscapeAll(segs), <<"/">>)

\* A validation failure raised by the validation engine at context path segs.
Errorf(code, segs, docs, trace, meta) ==
  [code |-> code, title |-> "short", detail |-> "long",
   path |-> DefaultPath(segs), pathPointer |-> jsonPointerSerializer(segs),
   docs |-> docs, trace |-> trace, meta |-> meta, holder |-> <<>>]

queryPrefix == <<"q","u","e","r","y","[">>

queryParamName(path) ==
  LET p == TrimPrefix(path, <<"/">>) IN
    IF HasPrefix(p, queryPrefix) /\ HasSuffix(p, <<"]">>) /\ Len(p) > Len(queryPrefix) + 1
    THEN SubSeq(p, Len(queryPrefix) + 1, Len(p) - 1)
    ELSE p

StatusOf(kind) == IF kind = SourceParameter THEN "400" ELSE "422"

\* SourceOf with the pointer set for every kind.
SourceOfBoth(path, kind) ==
  IF path = <<>> THEN NoSource
  ELSE [present   |-> TRUE,
        pointer   |-> path,
        parameter |-> IF kind = SourceParameter THEN queryParamName(path) ELSE <<>>,
        header    |-> IF kind = SourceHeader THEN TrimPrefix(path, <<"/">>) ELSE <<>>]

SourceOf(path, kind) ==
  IF path = <<>> THEN NoSource
  ELSE [present   |-> TRUE,
        pointer   |-> IF kind = SourcePointer THEN path ELSE <<>>,
        parameter |-> IF kind = SourceParameter THEN queryParamName(path) ELSE <<>>,
        header    |-> IF kind = SourceHeader THEN TrimPrefix(path, <<"/">>) ELSE <<>>]

ErrorFromValidationError(ve, kind) ==
  LET path == IF kind = SourcePointer THEN ve.pathPointer ELSE ve.path IN
    [status |-> StatusOf(kind),
     code   |-> ve.code,
     title  |-> ve.title,
     detail |-> ve.detail,
     links  |-> IF ve.docs # "" \/ ve.trace # ""
                THEN [present |-> TRUE, about |-> ve.docs, type |-> ve.trace] ELSE NoLinks,
     meta   |-> IF ve.meta # {} THEN ve.meta ELSE NoMeta,
     source |-> SourceOf(path, kind)]

\* jsonAPIErrorWrapper: an Error seen again as a validation failure.
WrapperPath(e) ==
  IF ~e.source.present THEN <<>>
  ELSE IF e.source.pointer # <<>> THEN e.source.pointer
  ELSE IF e.source.parameter # <<>> THEN e.source.parameter
  ELSE e.source.header

jsonAPIErrorWrapper(e) ==
  [code |-> e.code, title |-> e.title, detail |-> e.detail,
   path |-> WrapperPath(e), pathPointer |-> WrapperPath(e),
   docs |-> IF e.links.present THEN e.links.about ELSE "",
   trace |-> IF e.links.present THEN e.links.type ELSE "",
   meta |-> e.meta,
   holder |-> <<e>>]

\* ToJSONAPIErrors: every failure of the sequence is translated and wrapped.
ToJSONAPIErrors(errs, kind) ==
  [i \in 1..Len(errs) |-> jsonAPIErrorWrapper(ErrorFromValidationError(errs[i], kind))]

\* ErrorsFromValidationError: a wrapped failure yields its Error as it is,
\* any other failure is translated with kind.
ErrorsFromValidationError(errs, kind) ==
  [i \in 1..Len(errs) |->
     IF errs[i].holder # <<>> THEN errs[i].holder[1]
     ELSE ErrorFromValidationError(errs[i], kind)]

\* ------------------------------------------------------------------------
\* Header validator (headerruleset.go)
\* ------------------------------------------------------------------------
CodeRequired == "REQUIRED"
CodeEncoding == "ENCODING"
CodePattern == "PATTERN"
CodeUnexpected == "UNEXPECTED"
CodeForbidden == "FORBIDDEN"
CodeType == "TYPE"
CodeMin == "MIN"
CodeMax == "MAX"
CodeMinLen == "MINLEN"
CodeMaxLen == "MAXLEN"

ContentTypeName == <<"C","o","n","t","e","n","t","-","T","y","p","e">>
AcceptName == <<"A","c","c","e","p","t">>

MediaTypeJSONAPI == "application/vnd.api+json"
contentTypeParamExt == "ext"
contentTypeParamProfile == "profile"

\* An engine failure with no documentation links and no metadata.
PlainError(code, segs) == Errorf(code, segs, "", "", {})

\* validateContentType: the Content-Type of the request is
\*   raw = "" (absent), raw = "malformed" (mime.ParseMediaType fails), or
\*   raw = "parsed" with its media type and parameters; extOk / profileOk say
\*   whether the caller's sub-validator accepts the parameter value.
\* The function returns at the first failure it meets.
validateContentType(h, ct) ==
  IF ct.raw = "" THEN
    (IF h.contentRequired THEN <<PlainError(CodeRequired, <<ContentTypeName>>)>> ELSE <<>>)
  ELSE IF ct.raw = "malformed" THEN <<PlainError(CodeEncoding, <<ContentTypeName>>)>>
  ELSE IF ct.mediaType # MediaTypeJSONAPI THEN <<PlainError(CodePattern, <<ContentTypeName>>)>>
  ELSE IF \E name \in ct.params : name # contentTypeParamExt /\ name # contentTypeParamProfile
    THEN <<PlainError(CodeUnexpected, <<ContentTypeName>>)>>
  ELSE IF h.extRuleSet /\ contentTypeParamExt \in ct.params /\ ~ct.extOk
    THEN <<PlainError(CodePattern, <<ContentTypeName>>)>>
  ELSE IF h.profileRuleSet /\ contentTypeParamProfile \in ct.params /\ ~ct.profileOk
    THEN <<PlainError(CodePattern, <<ContentTypeName>>)>>
  ELSE <<>>

\* The failures of the registered header rules, visited in the order ord
\* (Go iterates the headerRules map in an unspecified order).
RECURSIVE HeaderRuleErrors(_, _)
HeaderRuleErrors(ord, bad) ==
  IF ord = <<>> THEN <<>>
  ELSE (IF ord[1] \in bad THEN <<PlainError(CodeMinLen, <<ord[1]>>)>> ELSE <<>>)
       \o HeaderRuleErrors(Tail(ord), bad)

\* HeaderRuleSet.Evaluate
HeaderEvaluate(h, hdrs, ord) ==
  LET errs == validateContentType(h, hdrs.ct) \o HeaderRuleErrors(ord, hdrs.bad) IN
    IF errs = <<>> THEN <<>> ELSE ToJSONAPIErrors(errs, SourceHeader)

\* headerToHTTP: a typed Header becomes a Content-Type with ext / profile
\* parameters for its non-empty URI lists.
headerToHTTP(in) ==
  [ct |-> [raw |-> "parsed", mediaType |-> MediaTypeJSONAPI,
           params |-> (IF in.ext THEN {contentTypeParamExt} ELSE {})
                      \cup (IF in.profile THEN {contentTypeParamProfile} ELSE {}),
           extOk |-> in.extOk, profileOk |-> in.profileOk],
   bad |-> {}]

\* HeaderRuleSet.Apply: the failures of Evaluate are translated once more.
HeaderApply(h, in, ord) ==
  IF in.kind = "other" THEN ToJSONAPIErrors(<<PlainError(CodeType, <<>>)>>, SourceHeader)
  ELSE LET headers == IF in.kind = "typed" THEN headerToHTTP(in.typed) ELSE in.headers
           err == HeaderEvaluate(h, headers, ord)
       IN IF err # <<>> THEN ToJSONAPIErrors(err, SourceHeader) ELSE <<>>

\* getHeader: headers[name], the index of a Go map by the name as it is
\* written.  A multimap is the set of the keys it stores, each with a value
\* its rule accepts; the result says whether a value was found.
getHeader(keys, name) == name \in keys

\* A lookup that folds the letter case of the stored keys.
ToLowerChar(c) ==
  CASE c = "A" -> "a" [] c = "C" -> "c" [] c = "T" -> "t" [] c = "X" -> "x" [] c = "I" -> "i"
    [] OTHER -> c

ToLower(s) == [i \in 1..Len(s) |-> ToLowerChar(s[i])]

EqualFold(a, b) == ToLower(a) = ToLower(b)

\* The headers Evaluate sees in a multimap: the Content-Type it finds, and
\* the registered headers whose rule fails because it is handed the empty
\* string (the rule of a registered header rejects the empty string).
HeadersOf(h, keys) ==
  [ct |-> IF getHeader(keys, ContentTypeName)
          THEN [raw |-> "parsed", mediaType |-> MediaTypeJSONAPI, params |-> {},
                extOk |-> TRUE, profileOk |-> TRUE]
          ELSE [raw |-> "", mediaType |-> "", params |-> {}, extOk |-> TRUE, profileOk |-> TRUE],
   bad |-> {name \in h.headerRules : ~getHeader(keys, name)}]

\* HeaderRuleSet.Apply on an http.Header or a map[string][]string: the
\* conversion http.Header(v) keeps the keys of the map as they are.
HeaderApplyMultimap(h, keys, ord) ==
  HeaderApply(h, [kind |-> "http", headers |-> HeadersOf(h, keys),
                  typed |-> [ext |-> FALSE, profile |-> FALSE, extOk |-> TRUE, profileOk |-> TRUE]],
              ord)

\* ------------------------------------------------------------------------
\* Request context and context rules (rulemethod.go)
\* ------------------------------------------------------------------------
Methods == {"", "GET", "HEAD", "POST", "PATCH", "DELETE"}
Ids == {<<>>, <<"1">>}

Contexts == [method : Methods, id : Ids]

MethodFromContext(ctx) == ctx.method
IdFromContext(ctx) == ctx.id

\* httpMethodRule.Evaluate: nil iff the context method is one of methods.
httpMethodRule(methods, ctx) ==
  IF MethodFromContext(ctx) \in methods THEN {} ELSE {CodePattern}

\* IndexRule: forbidden when a method and a resource id are both set.
IndexRule(ctx) ==
  IF MethodFromContext(ctx) # "" /\ IdFromContext(ctx) # <<>> THEN {CodeForbidden} ELSE {}

\* ------------------------------------------------------------------------
\* Query rule sets (querystring rule sets: sort, include, fields, filter, page)
\* ------------------------------------------------------------------------
\* strings.Split(s, sep) for a one-character separator.
RECURSIVE SplitFrom(_, _, _)
SplitFrom(s, sep, cur) ==
  IF s = <<>> THEN <<cur>>
  ELSE IF s[1] = sep THEN <<cur>> \o SplitFrom(Tail(s), sep, <<>>)
  ELSE SplitFrom(Tail(s), sep, Append(cur, s[1]))

Split(s, sep) == SplitFrom(s, sep, <<>>)

DigitValue(c) ==
  CASE c = "0" -> 0 [] c = "1" -> 1 [] c = "2" -> 2 [] c = "3" -> 3 [] c = "4" -> 4
    [] c = "5" -> 5 [] c = "6" -> 6 [] c = "7" -> 7 [] c = "8" -> 8 [] c = "9" -> 9

RECURSIVE DigitsValue(_, _)
DigitsValue(s, acc) ==
  IF s = <<>> THEN acc ELSE DigitsValue(Tail(s), acc * 10 + DigitValue(s[1]))

IsDigits(s) == s # <<>> /\ \A i \in 1..Len(s) : s[i] \in Digits

\* Coercion of a query value to an integer by the Int rule set.
IsInt(s) == IsDigits(s) \/ (Len(s) > 1 /\ s[1] = "-" /\ IsDigits(Tail(s)))

IntValue(s) == IF s[1] = "-" THEN 0 - DigitsValue(Tail(s), 0) ELSE DigitsValue(s, 0)

PageSizeMin == 1
PageSizeMax == 100

\* stringQueryValueRuleSet: a slice of strings of at most one element.
stringQueryValueRuleSet(values) == IF Len(values) > 1 THEN {CodeMaxLen} ELSE {}

\* filterRuleSet: any number of string values, GET/HEAD only, index only.
filterRuleSet(values, ctx) ==
  [errs |-> httpMethodRule({"GET", "HEAD"}, ctx) \cup IndexRule(ctx), value |-> values]

\* fieldsRuleSet (includeRuleSet is the same rule set).
fieldsRuleSet(values, ctx) ==
  IF MethodFromContext(ctx) = "DELETE" THEN [errs |-> {CodeForbidden}, value |-> <<>>]
  ELSE IF stringQueryValueRuleSet(values) # {}
    THEN [errs |-> stringQueryValueRuleSet(values), value |-> <<>>]
  ELSE [errs |-> {}, value |-> {Split(values[1], ",")[i] : i \in 1..Len(Split(values[1], ","))}]

includeRuleSet(values, ctx) == fieldsRuleSet(values, ctx)

SortParam(field, descending) == [Field |-> field, Descending |-> descending]

\* sortItem keeping the leading '-' in the field.
sortItemKeepingDash(itm) ==
  IF Len(itm) < 1 THEN SortParam(<<>>, FALSE)
  ELSE IF itm[1] = "-" THEN SortParam(itm, TRUE)
  ELSE SortParam(itm, FALSE)

\* One entry of the sort list: the zero value for an empty token.
sortItem(itm) ==
  IF Len(itm) < 1 THEN SortParam(<<>>, FALSE)
  ELSE IF itm[1] = "-" THEN SortParam(Tail(itm), TRUE)
  ELSE SortParam(itm, FALSE)

\* sortRuleSet without the check of the request context.
sortRuleSetAnyContext(values, ctx) ==
  IF stringQueryValueRuleSet(values) # {}
    THEN [errs |-> stringQueryValueRuleSet(values), value |-> <<>>]
  ELSE LET itms == Split(values[1], ",") IN
    [errs |-> {}, value |-> [i \in 1..Len(itms) |-> sortItem(itms[i])]]

sortRuleSet(values, ctx) ==
  LET method == MethodFromContext(ctx)
      id == IdFromContext(ctx)
  IN IF method # "" /\ (id # <<>> \/ (method # "GET" /\ method # "HEAD"))
       THEN [errs |-> {CodeForbidden}, value |-> <<>>]
     ELSE IF stringQueryValueRuleSet(values) # {}
       THEN [errs |-> stringQueryValueRuleSet(values), value |-> <<>>]
     ELSE LET itms == Split(values[1], ",") IN
       [errs |-> {}, value |-> [i \in 1..Len(itms) |-> sortItem(itms[i])]]

\* The item rule of page[size] without its upper limit.
pageSizeItemNoMax(s) ==
  IF ~IsInt(s) THEN {CodeType}
  ELSE IF IntValue(s) < PageSizeMin THEN {CodeMin}
  ELSE {}

\* The item rule of page[size]: an integer between PageSizeMin and PageSizeMax.
pageSizeItem(s) ==
  IF ~IsInt(s) THEN {CodeType}
  ELSE IF IntValue(s) < PageSizeMin THEN {CodeMin}
  ELSE IF IntValue(s) > PageSizeMax THEN {CodeMax}
  ELSE {}

pageSizeRuleSet(values, ctx) ==
  [errs |-> (IF Len(values) > 1 THEN {CodeMaxLen} ELSE {})
            \cup UNION {pageSizeItem(values[i]) : i \in 1..Len(values)}
            \cup httpMethodRule({"GET", "HEAD"}, ctx) \cup IndexRule(ctx),
   value |-> values]

cursorRuleSet(values, ctx) ==
  [errs |-> (IF Len(values) > 1 THEN {CodeMaxLen} ELSE {})
            \cup (IF Len(values) < 1 THEN {CodeMinLen} ELSE {})
            \cup UNION {IF Len(values[i]) < 1 THEN {CodeMinLen} ELSE {} : i \in 1..Len(values)}
            \cup httpMethodRule({"GET", "HEAD"}, ctx) \cup IndexRule(ctx),
   value |-> values]

\* Key families: ^fields\[[^\]]+\]$ and ^filter\[[^\]]+\]$
FamilyKey(key, prefix) ==
  /\ HasPrefix(key, prefix)
  /\ HasSuffix(key, <<"]">>)
  /\ Len(key) > Len(prefix) + 1
  /\ \A i \in (Len(prefix) + 1)..(Len(key) - 1) : key[i] # "]"

fieldKeyRule(key) == FamilyKey(key, <<"f","i","e","l","d","s","[">>)
filterKeyRule(key) == FamilyKey(key, <<"f","i","l","t","e","r","[">>)

KeySort == <<"s","o","r","t">>
KeyInclude == <<"i","n","c","l","u","d","e">>
KeyPageSize == <<"p","a","g","e","[","s","i","z","e","]">>
KeyPageAfter == <<"p","a","g","e","[","a","f","t","e","r","]">>
KeyPageBefore == <<"p","a","g","e","[","b","e","f","o","r","e","]">>
KeyFieldsT == <<"f","i","e","l","d","s","[","t","]">>
KeyFilterK == <<"f","i","l","t","e","r","[","k","]">>

StandardKeys == {KeySort, KeyInclude, KeyPageSize, KeyPageAfter, KeyPageBefore,
                 KeyFieldsT, KeyFilterK}

\* The rule set QueryStringBaseRuleSet applies to the values of a standard key.
StandardRuleSet(key, values, ctx) ==
  IF key = KeySort THEN sortRuleSet(values, ctx)
  ELSE IF key = KeyInclude THEN includeRuleSet(values, ctx)
  ELSE IF key = KeyPageSize THEN pageSizeRuleSet(values, ctx)
  ELSE IF key = KeyPageAfter \/ key = KeyPageBefore THEN cursorRuleSet(values, ctx)
  ELSE IF fieldKeyRule(key) THEN fieldsRuleSet(values, ctx)
  ELSE filterRuleSet(values, ctx)

\* ------------------------------------------------------------------------
\* Resource linkage (miscrules.go)
\* ------------------------------------------------------------------------
CodeNull == "NULL"

MaxItems == 2

\* Raw (decoded) JSON values handed to the linkage rule sets.
RawNil == [k |-> "nil"]
RawNumber == [k |-> "number"]
RawObject(type, id, unknown) == [k |-> "object", type |-> type, id |-> id, unknown |-> unknown]
RawArray(items) == [k |-> "array", items |-> items]
\* A Go string holding JSON text: "malformed", or the value it decodes to.
RawString(text) == [k |-> "string", text |-> text]
Malformed == [k |-> "malformed"]

\* A member of a raw object: absent, a JSON string, a JSON number or an object.
MemberKinds == {"absent", "string", "number", "object"}

\* The linkage variants.
NilResourceLinkage == [variant |-> "Nil"]
ResourceIdentifierLinkage(type, id) == [variant |-> "Identifier", Type |-> type, ID |-> id]
ResourceLinkageCollection(items) == [variant |-> "Collection", items |-> items]
\* A nil interface value (no linkage at all).
HostNil == [variant |-> "host-nil"]

\* rules.String() (not strict) on a member: strings pass, numbers are coerced.
StringMember(kind) == IF kind = "object" THEN {CodeType} ELSE {}

MemberValue(kind) == IF kind = "string" THEN "s" ELSE IF kind = "number" THEN "9" ELSE ""

\* ResourceIdentifierLinkageRuleSet: a Struct rule set with the optional keys
\* type, id, lid and meta; any other key is unexpected.
ResourceIdentifierLinkageRuleSet(value) ==
  IF value.k # "object" THEN [errs |-> {CodeType}, value |-> ResourceIdentifierLinkage("", "")]
  ELSE [errs |-> StringMember(value.type) \cup StringMember(value.id)
                 \cup (IF value.unknown THEN {CodeUnexpected} ELSE {}),
        value |-> ResourceIdentifierLinkage(MemberValue(value.type), MemberValue(value.id))]

\* resourceLinkageCast: nil, then JSON text (decoded, then cast again), then
\* slices, then a single identifier.
RECURSIVE resourceLinkageCast(_)
resourceLinkageCast(value) ==
  IF value.k = "nil" THEN [errs |-> {}, value |-> NilResourceLinkage]
  ELSE IF value.k = "string" THEN
    (IF value.text = Malformed THEN [errs |-> {CodeEncoding}, value |-> HostNil]
     ELSE resourceLinkageCast(value.text))
  ELSE IF value.k = "array" THEN
    [errs |-> UNION {ResourceIdentifierLinkageRuleSet(value.items[i]).errs : i \in 1..Len(value.items)},
     value |-> ResourceLinkageCollection(
                 [i \in 1..Len(value.items) |-> ResourceIdentifierLinkageRuleSet(value.items[i]).value])]
  ELSE ResourceIdentifierLinkageRuleSet(value)

\* ResourceLinkageRuleSet without the special case for nil.
ResourceLinkageRuleSetNoNil(in) ==
  IF in.k = "nil" THEN [errs |-> {}, value |-> HostNil]
  ELSE IF resourceLinkageCast(in).errs # {}
    THEN [errs |-> resourceLinkageCast(in).errs, value |-> HostNil]
  ELSE [errs |-> {}, value |-> resourceLinkageCast(in).value]

\* resourceLinkageRuleSetImpl.Apply: on failure the output is left as it was.
ResourceLinkageRuleSet(in) ==
  IF in.k = "nil" THEN [errs |-> {}, value |-> NilResourceLinkage]
  ELSE IF resourceLinkageCast(in).errs # {}
    THEN [errs |-> resourceLinkageCast(in).errs, value |-> HostNil]
  ELSE [errs |-> {}, value |-> resourceLinkageCast(in).value]

\* relationshipDataRuleSet: the cast of the interface rule set.
relationshipDataRuleSet(value) ==
  IF value.k = "nil" THEN [errs |-> {}, value |-> NilResourceLinkage]
  ELSE ResourceLinkageRuleSet(value)

\* ------------------------------------------------------------------------
\* Relationship (miscrules.go)
\* ------------------------------------------------------------------------
\* A relationship input map: data is Absent or a raw value; links and meta
\* are "absent", "valid" or "invalid"; unknown says whether another key is there.
Absent == [k |-> "absent"]

MemberStates == {"absent", "valid", "invalid"}

\* The Struct rule set of Relationship over the map m.  A null under "data"
\* is rejected by the Struct rule set before the cast is reached.
RelationshipStruct(m) ==
  LET dataRes == IF m.data = Absent THEN [errs |-> {}, value |-> HostNil]
                 ELSE IF m.data = RawNil THEN [errs |-> {CodeNull}, value |-> HostNil]
                 ELSE relationshipDataRuleSet(m.data)
      errs == dataRes.errs
              \cup (IF m.links = "invalid" THEN {CodeType} ELSE {})
              \cup (IF m.meta = "invalid" THEN {CodeType} ELSE {})
              \cup (IF m.unknown THEN {CodeUnexpected} ELSE {})
  IN [errs |-> errs,
      out |-> [Links |-> m.links, Data |-> IF errs = {} THEN dataRes.value ELSE HostNil,
               Meta |-> m.meta]]

\* RelationshipApply without the NilResourceLinkage substitution.
RelationshipApplyNoNil(m) ==
  LET hadNullData == m.data = RawNil
      elided == IF hadNullData THEN [m EXCEPT !.data = Absent] ELSE m
      res == RelationshipStruct(elided)
  IN [errs |-> res.errs,
      out |-> res.out,
      inputAfter |-> IF res.errs = {} /\ hadNullData
                     THEN [elided EXCEPT !.data = RawNil] ELSE elided]

\* relationshipRuleSetImpl.Apply, run alone: the result, the output and the
\* input map as it is left when the call returns.
RelationshipApply(m) ==
  LET hadNullData == m.data = RawNil
      elided == IF hadNullData THEN [m EXCEPT !.data = Absent] ELSE m
      res == RelationshipStruct(elided)
  IN [errs |-> res.errs,
      out |-> IF res.errs = {} /\ hadNullData
              THEN [res.out EXCEPT !.Data = NilResourceLinkage] ELSE res.out,
      inputAfter |-> IF res.errs = {} /\ hadNullData
                     THEN [elided EXCEPT !.data = RawNil] ELSE elided]

\* ------------------------------------------------------------------------
\* Resource object rule set (datumruleset.go, extensions.go)
\* ------------------------------------------------------------------------
AlphaNum == LowerAZ \cup UpperAZ \cup Digits

\* atMembersKeyRule: ^@
atMembersKeyRule(key) == Len(key) >= 1 /\ key[1] = "@"

\* extKeyRule: ^[a-zA-Z0-9]+:.+
extKeyRule(key) ==
  \E i \in 2..Len(key) :
     /\ key[i] = ":"
     /\ \A j \in 1..(i - 1) : key[j] \in AlphaNum
     /\ i < Len(key)

\* --- the query rule over parameter names (body_test.go: jsonAPIQueryRule) ---
\* jsonapiStandardLowercaseParams
jsonapiStandardLowercaseParams == {KeySort, KeyInclude}

\* isLegalQueryParamKey with every name legal.
isLegalQueryParamKeyAny(key) == TRUE

\* isLegalQueryParamKey: a character outside a-z, or a standard lowercase name.
isLegalQueryParamKey(key) ==
  \/ \E i \in 1..Len(key) : key[i] \notin LowerAZ
  \/ key \in jsonapiStandardLowercaseParams

\* jsonAPIQueryRule for one key of the query: the fields and filter
\* families, extension names, then the reserved all-lowercase names.
jsonAPIQueryRule(key, values, ctx) ==
  IF fieldKeyRule(key) THEN fieldsRuleSet(values, ctx).errs
  ELSE IF filterKeyRule(key) THEN filterRuleSet(values, ctx).errs
  ELSE IF extKeyRule(key) THEN {}
  ELSE IF ~isLegalQueryParamKey(key) THEN {CodeUnexpected}
  ELSE {}

\* The parameters QueryStringBaseRuleSet registers by name.
RegisteredKeys == {KeySort, KeyInclude, KeyPageSize, KeyPageAfter, KeyPageBefore}

\* QueryStringBaseRuleSet on one key: the rule set registered for the name,
\* if any, and jsonAPIQueryRule; a name that is not registered is left to
\* jsonAPIQueryRule alone.
QueryStringBaseRuleSet(key, values, ctx) ==
  (IF key \in RegisteredKeys THEN StandardRuleSet(key, values, ctx).errs ELSE {})
  \cup jsonAPIQueryRule(key, values, ctx)

\* --- QueryRuleSet registration (body_test.go: Query, WithParam, WithParamUnsafe) ---
\* A QueryRuleSet is the record of the parameters registered on it by the
\* caller (params) and of whether it derives from QueryStringBaseRuleSet
\* (base): the five registered standard parameters and jsonAPIQueryRule.
Query == [base |-> FALSE, params |-> {}]

QueryStringBase == [base |-> TRUE, params |-> {}]

\* The registration that never panics.
WithParamUnsafe(q, name) ==
  [panicked |-> FALSE, ruleSet |-> <<[q EXCEPT !.params = @ \cup {name}]>>]

\* WithParam without the check of the name.
WithParamUnchecked(q, name) == WithParamUnsafe(q, name)

\* WithParam panics on an illegal name, before anything is registered.
WithParam(q, name) ==
  IF ~isLegalQueryParamKey(name) THEN [panicked |-> TRUE, ruleSet |-> <<>>]
  ELSE [panicked |-> FALSE, ruleSet |-> <<[q EXCEPT !.params = @ \cup {name}]>>]

\* QueryRuleSet.Apply on one key of the query: the handler registered for
\* the key (handlerOk says whether it accepts the value), and for a rule set
\* derived from the base one, the base rule set with its rule over all keys.
QueryApply(q, key, handlerOk, values, ctx) ==
  (IF key \in q.params /\ ~handlerOk THEN {CodePattern} ELSE {})
  \cup (IF q.base THEN QueryStringBaseRuleSet(key, values, ctx) ELSE {})

RelAuthor == "author"

\* An error of the resource-object validation: a code at a path of member names.
DatumError(code, path) == [code |-> code, path |-> path]

\* A type rule that accepts every value.
typeRuleSetAnyValue(typeName, type) == {}

\* rules.Constant(typeName) on the type member: absent passes, a different
\* value is an error at /type.
typeRuleSet(typeName, type) ==
  IF type = "absent" \/ type = typeName THEN {} ELSE {DatumError(CodePattern, <<"type">>)}

\* IDRuleSet: a strict string.
IDRuleSet(kind) ==
  IF kind = "absent" \/ kind = "string" THEN {} ELSE {DatumError(CodeType, <<"id">>)}

\* The relationships member: every name needs a registered rule set
\* (WithRelationship) or the dynamic rule (WithUnknownRelationships).
RelationshipsErrors(cfg, rels) ==
  UNION {IF name \in cfg.relationships \/ cfg.unknownRelationships
         THEN {DatumError(c, <<"relationships", name>>) : c \in RelationshipApply(rels[name]).errs}
         ELSE {DatumError(CodeUnexpected, <<"relationships", name>>)} : name \in DOMAIN rels}

\* The two dynamic buckets, first match wins; any other extra key is unknown.
ExtraKeyErrors(extra) ==
  {DatumError(CodeUnexpected, <<Concat(key)>>) : key \in {k \in extra : ~atMembersKeyRule(k) /\ ~extKeyRule(k)}}

\* The Struct rule set of Datum[T] built by DatumRuleSet.Apply.
datumValidator(cfg, in) ==
  LET errs == IDRuleSet(in.id) \cup typeRuleSet(cfg.typeName, in.type)
              \cup (IF in.attributes = "invalid" THEN {DatumError(CodeType, <<"attributes">>)} ELSE {})
              \cup RelationshipsErrors(cfg, in.relationships)
              \cup ExtraKeyErrors(in.extra)
  IN [errs |-> errs,
      out |-> [ID |-> IF in.id = "string" THEN "s" ELSE "",
               Type |-> IF in.type = "absent" THEN "" ELSE in.type,
               Relationships |-> [name \in DOMAIN in.relationships |->
                                    RelationshipApply(in.relationships[name]).out],
               AtMembers |-> {k \in in.extra : atMembersKeyRule(k)},
               ExtensionMembers |-> {k \in in.extra : ~atMembersKeyRule(k) /\ extKeyRule(k)}]]

\* StampType leaving the decoded type as it is.
StampTypeKept(cfg, out) == out

\* The type stamped on the output after a successful validation.
StampType(cfg, out) == [out EXCEPT !.Type = cfg.typeName]

\* DatumRuleSet.Apply: the output is a *Datum[T] or a *any holding the Datum.
DatumApply(cfg, in) ==
  LET res == datumValidator(cfg, in) IN
    [errs |-> res.errs,
     out |-> IF res.errs = {} THEN StampType(cfg, res.out) ELSE res.out,
     inputAfter |-> [in EXCEPT !.relationships =
                       [name \in DOMAIN in.relationships |->
                          IF name \in cfg.relationships \/ cfg.unknownRelationships
                          THEN RelationshipApply(in.relationships[name]).inputAfter
                          ELSE in.relationships[name]]]]

\* ------------------------------------------------------------------------
\* Document rule set (bodyruleset.go): the decoding of a string input
\* ------------------------------------------------------------------------
\* The encoding failure translated parameter-kind.
SingleApplyInvalidJSONAsParameter(segs) ==
  ToJSONAPIErrors(<<PlainError(CodeEncoding, segs)>>, SourceParameter)

\* SingleRuleSet.Apply on a string that is not JSON: one encoding failure at
\* the path of the context, translated pointer-kind.
SingleApplyInvalidJSON(segs) ==
  ToJSONAPIErrors(<<PlainError(CodeEncoding, segs)>>, SourcePointer)

\* ------------------------------------------------------------------------
\* Datum JSON codec (body.go)
\* ------------------------------------------------------------------------
\* A resource object as JSON text is the record of its members:
\*   id, type, lid    "absent", "empty" (the empty string) or "s"
\*   attributes       Absent or [k |-> "object", keys |-> the attribute keys]
\*   relationships    a function from relationship names to the state of
\*                    their data member: "absent", "null" or "object"
\*                    (no relationships member when its domain is empty)
\*   links, meta      "absent", "empty" or "nonempty"
\*   extra            the other top-level keys
\* The typed attributes T are a map (AttrMap) or a struct with json tags.
AttrMap == [kind |-> "map", fields |-> {}]

\* A struct field: its Go name and its json tag (name and options).
StructField(goName, tagName, tagOpts) == [goName |-> goName, tagName |-> tagName, tagOpts |-> tagOpts]

AttrStruct(fields) == [kind |-> "struct", fields |-> fields]

\* field.Tag.Get("json"): the whole tag, options included.
TagGet(f) == f.tagName \o f.tagOpts

\* The key encoding/json uses for the field: the tag up to the first comma.
JSONName(f) == IF f.tagName = "" THEN f.goName ELSE f.tagName

\* fieldListMap.Contains
Contains(fields, name) == name \in fields

NilFields == [set |-> FALSE, names |-> {}]
FieldList(names) == [set |-> TRUE, names |-> names]

StringMemberOf(m) == IF m = "s" THEN "s" ELSE ""

\* Datum.UnmarshalJSON.  Decoding a relationship whose data is an object
\* fails: Relationship.Data is an interface and has no decoder.
UnmarshalJSON(x, T) ==
  IF \E name \in DOMAIN x.relationships : x.relationships[name] = "object"
  THEN [ok |-> FALSE]
  ELSE
  [ok |-> TRUE,
   ID |-> StringMemberOf(x.id),
   Type |-> StringMemberOf(x.type),
   Lid |-> StringMemberOf(x.lid),
   \* keys held by the typed attributes after decoding
   Attributes |-> IF x.attributes = Absent THEN {}
                  ELSE IF T.kind = "map" THEN x.attributes.keys
                  ELSE {JSONName(f) : f \in {g \in T.fields : JSONName(g) \in x.attributes.keys}},
   Links |-> x.links,
   \* a null data decodes to the nil interface
   Relationships |-> [name \in DOMAIN x.relationships |-> "unset"],
   Meta |-> x.meta,
   AtMembers |-> {key \in x.extra : HasPrefix(key, <<"@">>)},
   ExtensionMembers |-> {key \in x.extra : ~HasPrefix(key, <<"@">>) /\ Index(key, ":") > 1},
   Fields |-> FieldList(IF x.attributes = Absent THEN {} ELSE x.attributes.keys)]

\* The name MarshalJSON looks a struct field up by: the whole json tag, or
\* the Go name when the field has no tag.
FieldName(f) == IF TagGet(f) = "" THEN f.goName ELSE TagGet(f)

\* The attribute keys MarshalJSON emits for the field list fields.
FilteredAttributes(d, T, fields) ==
  IF T.kind = "struct"
  THEN {FieldName(f) : f \in {g \in T.fields : Contains(fields, FieldName(g))}}
  ELSE {key \in d.Attributes : Contains(fields, key)}

\* The attribute keys json.Marshal emits for the whole typed value.
FullAttributes(d, T) ==
  IF T.kind = "struct" THEN {JSONName(f) : f \in T.fields} ELSE d.Attributes

\* Datum.MarshalJSON
MarshalJSON(d, T) ==
  LET attrs == IF d.Fields.set THEN FilteredAttributes(d, T, d.Fields.names)
               ELSE FullAttributes(d, T)
      relNames == IF d.Fields.set
                  THEN {name \in DOMAIN d.Relationships : Contains(d.Fields.names, name)}
                  ELSE DOMAIN d.Relationships
  IN [id |-> IF d.ID = "" THEN "empty" ELSE d.ID,
      type |-> IF d.Type = "" THEN "empty" ELSE d.Type,
      lid |-> IF d.Lid # "" THEN d.Lid ELSE "absent",
      links |-> IF d.Links = "nonempty" THEN "nonempty" ELSE "absent",
      meta |-> IF d.Meta = "nonempty" THEN "nonempty" ELSE "absent",
      attributes |-> IF d.Fields.set /\ attrs = {} THEN Absent
                     ELSE [k |-> "object", keys |-> attrs],
      \* a Relationship whose Data is the nil interface is written without data
      relationships |-> [name \in relNames |->
                           IF d.Relationships[name] = "unset" THEN "absent" ELSE "null"],
      extra |-> d.ExtensionMembers \cup d.AtMembers]

\* ------------------------------------------------------------------------
\* Document rule set (bodyruleset.go): a decoded document
\* ------------------------------------------------------------------------
\* A document, given as JSON text or as a decoded map, is the record of its
\* top-level members:
\*   data      k is "absent", "null" or "object"; for an object, the id
\*             ("absent", "string", "number"), the type, and the attributes
\*             member (Absent, or the object with its keys)
\*   meta      "absent", "empty", or "unknown" (a key no rule is registered for)
\*   included  "absent", "valid", or "invalid" (an element that is not an object)
\*   errors    whether a top-level errors array is there
\*   extra     the other top-level keys
\* The rule set is the record of its options: required (WithRequired),
\* unknownDocumentMeta (WithUnknownDocumentMeta) and the datum rule set.

\* The resource object handed to the datum rule set.
DatumOf(data) ==
  [id |-> data.id, type |-> data.type, attributes |-> "valid",
   relationships |-> <<>>, extra |-> {}]

\* The cast of the data key: nil gives the zero Datum, anything else goes
\* through the datum rule set.
dataRuleSet(ruleSet, data) ==
  IF data.k = "null" THEN {}
  ELSE {DatumError(e.code, <<"data">> \o e.path) : e \in DatumApply(ruleSet.datum, DatumOf(data)).errs}

\* The top-level keys with no rule and no bucket, were the validator built
\* WithUnknown.
TopLevelKeyErrorsWithUnknown(doc) == {}

\* The top-level keys with no rule and no bucket: errors is one of them.
TopLevelKeyErrors(doc) ==
  (IF doc.errors THEN {DatumError(CodeUnexpected, <<"errors">>)} ELSE {})
  \cup ExtraKeyErrors(doc.extra)

\* bodyValidator: the Struct rule set of the envelope.  No key is required;
\* the required option of the rule set is not read.
bodyValidator(ruleSet, doc) ==
  (IF doc.data.k = "absent" THEN {} ELSE dataRuleSet(ruleSet, doc.data))
  \cup (IF doc.meta = "unknown" /\ ~ruleSet.unknownDocumentMeta
        THEN {DatumError(CodeUnexpected, <<"meta", "copyright">>)} ELSE {})
  \cup (IF doc.included = "invalid" THEN {DatumError(CodeType, <<"included", "0">>)} ELSE {})
  \cup TopLevelKeyErrors(doc)

\* The field list written after a successful validation: only when data is
\* an object whose attributes member is an object.
presentAttributeFields(doc) ==
  IF doc.data.k = "object" /\ doc.data.attributes # Absent
  THEN FieldList(doc.data.attributes.keys)
  ELSE NilFields

\* SingleRuleSet.Apply on a document that decodes: every failure becomes one
\* pointer-kind error; on success Data holds the stamped resource (the zero
\* Datum when data is null or absent) and its field list.
SingleApply(ruleSet, doc) ==
  LET errs == bodyValidator(ruleSet, doc) IN
    [errs |-> errs,
     kind |-> SourcePointer,
     Data |-> IF errs # {} THEN <<>>
              ELSE <<[Type |-> IF doc.data.k = "object" THEN ruleSet.datum.typeName ELSE "",
                      ID |-> IF doc.data.k = "object" /\ doc.data.id = "string" THEN "s" ELSE "",
                      Fields |-> presentAttributeFields(doc)]>>]

\* ------------------------------------------------------------------------
\* Inputs
\* ------------------------------------------------------------------------
SeqsUpTo(S, n) == UNION {[1..k -> S] : k \in 0..n}

NonEmptySeqsUpTo(S, n) == UNION {[1..k -> S] : k \in 1..n}

Kinds == {SourcePointer, SourceParameter, SourceHeader}

\* Path segments: member names, a query parameter, a header name, a name that
\* JSON Pointer escapes, and the empty name.
Segments == {<<"d","a","t","a">>, <<"t","i","t","l","e">>,
             <<"q","u","e","r","y","[","f","i","l","t","e","r","]">>,
             AcceptName, <<"a","/","b">>, <<>>}

Paths == SeqsUpTo(Segments, MaxPathLen)

EngineErrors ==
  {Errorf(CodeRequired, segs, docs, trace, meta) :
     segs \in Paths, docs \in {"", "docs"}, trace \in {"", "trace"}, meta \in {{}, {"k"}}}

\* Failures handed to the translator: engine failures, and failures that
\* were already translated once (as HeaderRuleSet.Apply hands them over).
ValidationErrors ==
  EngineErrors \cup
  {jsonAPIErrorWrapper(ErrorFromValidationError(ve, kind)) :
     ve \in {e \in EngineErrors : e.docs = "" /\ e.trace = ""}, kind \in Kinds}

TranslateInputs == [ve : ValidationErrors, kind : Kinds]

HeaderNames == {AcceptName, <<"X","-","I","d">>}

ContentTypes ==
  {[raw |-> "", mediaType |-> "", params |-> {}, extOk |-> TRUE, profileOk |-> TRUE],
   [raw |-> "malformed", mediaType |-> "", params |-> {}, extOk |-> TRUE, profileOk |-> TRUE]}
  \cup [raw : {"parsed"}, mediaType : {MediaTypeJSONAPI, "application/json"},
        params : SUBSET {contentTypeParamExt, contentTypeParamProfile, "charset"},
        extOk : BOOLEAN, profileOk : BOOLEAN]

HeaderRuleSets ==
  [contentRequired : BOOLEAN, extRuleSet : BOOLEAN, profileRuleSet : BOOLEAN,
   headerRules : SUBSET HeaderNames]

\* The orders in which a set of header names can be visited.
Orders(S) == {ord \in [1..Cardinality(S) -> S] : \A i, j \in 1..Cardinality(S) : ord[i] = ord[j] => i = j}

NoTyped == [ext |-> FALSE, profile |-> FALSE, extOk |-> TRUE, profileOk |-> TRUE]
NoHeaders == [ct |-> [raw |-> "", mediaType |-> "", params |-> {}, extOk |-> TRUE, profileOk |-> TRUE],
              bad |-> {}]

HeaderInputs ==
  {[h |-> h, ord |-> ord, in |-> [kind |-> "http", headers |-> [ct |-> ct, bad |-> bad], typed |-> NoTyped]] :
     h \in HeaderRuleSets, ord \in UNION {Orders(S) : S \in SUBSET HeaderNames},
     ct \in ContentTypes, bad \in SUBSET HeaderNames}
  \cup
  {[h |-> h, ord |-> ord, in |-> [kind |-> "typed", headers |-> NoHeaders, typed |-> t]] :
     h \in HeaderRuleSets, ord \in UNION {Orders(S) : S \in SUBSET HeaderNames},
     t \in [ext : BOOLEAN, profile : BOOLEAN, extOk : BOOLEAN, profileOk : BOOLEAN]}
  \cup
  {[h |-> h, ord |-> ord, in |-> [kind |-> "other", headers |-> NoHeaders, typed |-> NoTyped]] :
     h \in HeaderRuleSets, ord \in UNION {Orders(S) : S \in SUBSET HeaderNames}}

\* Only the calls in which ord is an order of the registered header rules
\* and the failing headers are registered ones.
HeaderCalls ==
  {c \in HeaderInputs :
     /\ {c.ord[i] : i \in 1..Len(c.ord)} = c.h.headerRules
     /\ c.in.headers.bad \subseteq c.h.headerRules}

\* Multimaps (an http.Header or a map[string][]string) storing the media
\* type and the Accept header under their canonical or their lower-case key.
StoredKeys == {ContentTypeName, ToLower(ContentTypeName), AcceptName, ToLower(AcceptName)}

MultimapInputs ==
  [h : [contentRequired : {TRUE}, extRuleSet : {FALSE}, profileRuleSet : {FALSE},
        headerRules : SUBSET {AcceptName}],
   kind : {"http.Header", "map[string][]string"},
   keys : SUBSET StoredKeys]

QueryValues == {<<>>, <<"a">>, <<"-","a">>, <<"a",",",",","-","b">>,
                <<"0">>, <<"1">>, <<"1","0","0">>, <<"1","0","1">>}

\* url.Values never maps a parsed key to an empty list of values.
QueryInputs == [key : StandardKeys, values : NonEmptySeqsUpTo(QueryValues, MaxValues), ctx : Contexts]

ItemObjects == {RawObject("string", "string", FALSE), RawObject("absent", "string", FALSE),
                RawObject("string", "absent", TRUE), RawNumber}

RawObjects == {RawObject(t, i, u) : t \in MemberKinds, i \in {"absent", "string"}, u \in BOOLEAN}

RawPlain == {RawNil, RawNumber} \cup RawObjects
            \cup {RawArray(items) : items \in SeqsUpTo(ItemObjects, MaxItems)}

RawValues ==
  RawPlain
  \cup {RawString(Malformed), RawString(RawNil), RawString(RawNumber),
        RawString(RawObject("string", "string", FALSE)),
        RawString(RawArray(<<RawObject("string", "string", FALSE)>>)),
        RawString(RawString(RawNil)), RawString(RawString(Malformed))}

RelationshipInputs ==
  [data : {Absent} \cup RawValues, links : MemberStates, meta : MemberStates, unknown : BOOLEAN]

\* The relationship maps nested in resource objects.
NestedRelationships ==
  [data : {Absent, RawNil, RawObject("string", "string", FALSE), RawObject("object", "string", FALSE)},
   links : {"absent", "invalid"}, meta : {"absent"}, unknown : {FALSE}]

TypeName == "articles"

DatumRuleSets ==
  [typeName : {TypeName}, relationships : SUBSET {RelAuthor}, unknownRelationships : BOOLEAN]

ExtraKeys == {<<"@","m">>, <<"n","s",":","m">>, <<"b","o","g","u","s">>, <<":","m">>, <<"n","-","s",":","m">>}

DatumInputs ==
  [cfg : DatumRuleSets,
   in : [id : {"absent", "string", "number"},
         type : {"absent", TypeName, "bogus"},
         attributes : {"valid", "invalid"},
         relationships : {<<>>} \cup {[name \in {RelAuthor} |-> m] : m \in NestedRelationships},
         extra : {{}} \cup {{k} : k \in ExtraKeys}]]

AttrTypes ==
  {AttrMap,
   AttrStruct({StructField("Title", "title", ""), StructField("Age", "age", "")}),
   AttrStruct({StructField("Title", "title", ""), StructField("Age", "age", ",omitempty")})}

AttrKeys == {"title", "age"}

RelNames == {RelAuthor, "title"}

JSONDatums ==
  [id : {"absent", "s"}, type : {"s"}, lid : {"absent", "s"},
   attributes : {Absent} \cup {[k |-> "object", keys |-> S] : S \in SUBSET AttrKeys},
   relationships : UNION {[N -> {"absent", "null", "object"}] : N \in SUBSET RelNames},
   links : {"absent", "nonempty"}, meta : {"absent", "empty", "nonempty"},
   extra : {{}} \cup {{k} : k \in ExtraKeys}]

CodecInputs == [x : JSONDatums, T : AttrTypes]

SingleInputs == [path : SeqsUpTo({<<"d","o","c">>}, 1)]

\* Documents that decode, and the rule sets they are handed to.
DocumentData ==
  {[k |-> "absent"], [k |-> "null"]}
  \cup [k : {"object"}, id : {"string", "number"}, type : {TypeName, "bogus"},
        attributes : {Absent} \cup {[k |-> "object", keys |-> S] : S \in SUBSET AttrKeys}]

SingleRuleSets ==
  [required : BOOLEAN, unknownDocumentMeta : BOOLEAN,
   datum : {[typeName |-> TypeName, relationships |-> {}, unknownRelationships |-> FALSE]}]

DocumentInputs ==
  [ruleSet : SingleRuleSets,
   doc : [data : DocumentData,
          meta : {"absent", "empty", "unknown"},
          included : {"absent", "invalid"},
          errors : BOOLEAN,
          extra : {{}, {<<"b","o","g","u","s">>}, {<<"@","m">>}}]]


\* Query parameter names: the standard ones and others.
OtherKeys == {<<"u","n","k","n","o","w","n">>,
              <<"f","i","l","t","e","r">>,
              <<"p","a","g","e">>,
              <<"f","i","e","l","d","s">>,
              <<"c","a","m","e","l","C","a","s","e">>,
              <<"n","s",":","m">>,
              <<"F","o","o">>,
              <<"f","i","e","l","d","s","[">>,
              <<"f","i","l","t","e","r","[","]">>,
              <<"p","a","g","e","[","x","]">>,
              <<>>,
              <<"a","1">>,
              <<":","m">>,
              <<"f","i","e","l","d","s","[","t","]","x">>}

QueryKeyInputs ==
  [key : StandardKeys \cup OtherKeys, values : {<<<<"a">>>>}, ctx : Contexts]

\* Registrations: a name registered on Query() or on the base rule set.
RegistrationInputs ==
  [q : {Query, QueryStringBase}, name : StandardKeys \cup OtherKeys]

\* Validations of a rule set with one parameter registered through the
\* unsafe path, for that parameter or for sort, on an index GET.
RegisteredInputs ==
  [q : {WithParamUnsafe(q, name).ruleSet[1] : q \in {Query, QueryStringBase}, name \in OtherKeys},
   key : {KeySort} \cup OtherKeys,
   handlerOk : BOOLEAN,
   values : {<<<<"a">>>>},
   ctx : {[method |-> "GET", id |-> <<>>]}]

\* The maps the concurrent callers share.
SharedRelationships ==
  [data : {Absent, RawNil, RawObject("string", "string", FALSE), RawNumber},
   links : {"absent", "invalid"}, meta : {"absent"}, unknown : {FALSE}]

\* ------------------------------------------------------------------------
\* One call of one operation
\* ------------------------------------------------------------------------
Calls ==
  [op : {"ErrorFromValidationError"}, input : TranslateInputs]
  \cup [op : {"HeaderRuleSet.Apply"}, input : HeaderCalls]
  \cup [op : {"HeaderRuleSet.Apply(multimap)"}, input : MultimapInputs]
  \cup [op : {"QueryRuleSet.Apply"}, input : QueryInputs]
  \cup [op : {"QueryStringBaseRuleSet.Apply"}, input : QueryKeyInputs]
  \cup [op : {"QueryRuleSet.WithParam", "QueryRuleSet.WithParamUnsafe"}, input : RegistrationInputs]
  \cup [op : {"QueryRuleSet.Apply(registered)"},
         input : {i \in RegisteredInputs : i.key = KeySort \/ i.key \in i.q.params}]
  \cup [op : {"ResourceLinkageRuleSet.Apply"}, input : RawValues]
  \cup [op : {"RelationshipRuleSet.Apply"}, input : RelationshipInputs]
  \cup [op : {"DatumRuleSet.Apply"}, input : DatumInputs]
  \cup [op : {"SingleRuleSet.Apply"}, input : SingleInputs]
  \cup [op : {"SingleRuleSet.Apply(document)"}, input : DocumentInputs]
  \cup [op : {"Datum.RoundTrip"}, input : CodecInputs]

NoOutput == <<>>
NoShared == [map |-> Absent, writers |-> {}, crashed |-> FALSE]
NoProc == <<>>

Init ==
  /\ pc = "call"
  /\ \E c \in Calls : op = c.op /\ input = c.input
  /\ output = NoOutput
  /\ shared = NoShared
  /\ proc = NoProc

Return(value) ==
  /\ pc = "call"
  /\ pc' = "done"
  /\ output' = value
  /\ UNCHANGED <<op, input, shared, proc>>

Translate ==
  /\ op = "ErrorFromValidationError"
  /\ Return(ErrorFromValidationError(input.ve, input.kind))

ApplyHeaders ==
  /\ op = "HeaderRuleSet.Apply"
  /\ Return(HeaderApply(input.h, input.in, input.ord))

ApplyMultimap ==
  /\ op = "HeaderRuleSet.Apply(multimap)"
  /\ Return(HeaderApplyMultimap(input.h, input.keys,
                                IF input.h.headerRules = {} THEN <<>> ELSE <<AcceptName>>))

ApplyQuery ==
  /\ op = "QueryRuleSet.Apply"
  /\ Return(StandardRuleSet(input.key, input.values, input.ctx))

ApplyQueryString ==
  /\ op = "QueryStringBaseRuleSet.Apply"
  /\ Return([errs |-> QueryStringBaseRuleSet(input.key, input.values, input.ctx)])

RegisterParam ==
  /\ op = "QueryRuleSet.WithParam"
  /\ Return(WithParam(input.q, input.name))

RegisterParamUnsafe ==
  /\ op = "QueryRuleSet.WithParamUnsafe"
  /\ Return(WithParamUnsafe(input.q, input.name))

ApplyRegistered ==
  /\ op = "QueryRuleSet.Apply(registered)"
  /\ Return([errs |-> QueryApply(input.q, input.key, input.handlerOk, input.values, input.ctx)])

ApplyLinkage ==
  /\ op = "ResourceLinkageRuleSet.Apply"
  /\ Return(ResourceLinkageRuleSet(input))

ApplyRelationship ==
  /\ op = "RelationshipRuleSet.Apply"
  /\ Return(RelationshipApply(input))

ApplyDatum ==
  /\ op = "DatumRuleSet.Apply"
  /\ Return(DatumApply(input.cfg, input.in))

ApplySingle ==
  /\ op = "SingleRuleSet.Apply"
  /\ Return(SingleApplyInvalidJSON(input.path))

ApplyDocument ==
  /\ op = "SingleRuleSet.Apply(document)"
  /\ Return(SingleApply(input.ruleSet, input.doc))

\* json.Unmarshal into a Datum[T], then json.Marshal of the decoded value.
RoundTrip ==
  /\ op = "Datum.RoundTrip"
  /\ LET d == UnmarshalJSON(input.x, input.T) IN
       Return([decoded |-> d, encoded |-> IF d.ok THEN <<MarshalJSON(d, input.T)>> ELSE <<>>])

Next ==
  \/ Translate
  \/ ApplyHeaders
  \/ ApplyMultimap
  \/ ApplyQuery
  \/ ApplyQueryString
  \/ RegisterParam
  \/ RegisterParamUnsafe
  \/ ApplyRegistered
  \/ ApplyLinkage
  \/ ApplyRelationship
  \/ ApplyDatum
  \/ ApplySingle
  \/ ApplyDocument
  \/ RoundTrip

Spec == Init /\ [][Next]_vars


\* ------------------------------------------------------------------------
\* Concurrent calls of relationshipRuleSetImpl.Apply on one input map
\* ------------------------------------------------------------------------
\* shared.map is the caller's map, shared.writers the calls that are in the
\* middle of a map write, shared.crashed whether the Go runtime has aborted
\* the program on detecting a concurrent map access.  proc[p] is the call p:
\* its position in Apply and its local variables.
Procs == 1..MaxProcs

NoResult == [errs |-> {}, out |-> [Links |-> "absent", Data |-> HostNil, Meta |-> "absent"]]

InitConc ==
  /\ pc = "concurrent"
  /\ op = "RelationshipRuleSet.Apply"
  /\ input \in SharedRelationships
  /\ output = NoOutput
  /\ shared = [map |-> input, writers |-> {}, crashed |-> FALSE]
  /\ proc = [p \in Procs |-> [pc |-> "lookup", hadNullData |-> FALSE, res |-> NoResult]]

Running(p, at) ==
  /\ pc = "concurrent"
  /\ ~shared.crashed
  /\ proc[p].pc = at

\* inputMap["data"]: exists && dataVal == nil
Lookup(p) ==
  /\ Running(p, "lookup")
  /\ proc' = [proc EXCEPT ![p].hadNullData = (shared.map.data = RawNil),
                          ![p].pc = IF shared.map.data = RawNil THEN "delete" ELSE "validate"]
  /\ UNCHANGED <<pc, op, input, output, shared>>

\* delete(inputMap, "data") begins ...
BeginDelete(p) ==
  /\ Running(p, "delete")
  /\ shared' = [shared EXCEPT !.writers = @ \cup {p}]
  /\ proc' = [proc EXCEPT ![p].pc = "deleting"]
  /\ UNCHANGED <<pc, op, input, output>>

\* ... and ends.
EndDelete(p) ==
  /\ Running(p, "deleting")
  /\ shared' = [shared EXCEPT !.map.data = Absent, !.writers = @ \ {p}]
  /\ proc' = [proc EXCEPT ![p].pc = "validate"]
  /\ UNCHANGED <<pc, op, input, output>>

\* validator.Apply(ctx, input, output), then Data = NilResourceLinkage{}
\* when the call removed a null and the validation succeeded.
Validate(p) ==
  /\ Running(p, "validate")
  /\ LET res == RelationshipStruct(shared.map)
         restore == res.errs = {} /\ proc[p].hadNullData
     IN proc' = [proc EXCEPT ![p].res = [errs |-> res.errs,
                                         out |-> IF restore
                                                 THEN [res.out EXCEPT !.Data = NilResourceLinkage]
                                                 ELSE res.out],
                             ![p].pc = IF restore THEN "restore" ELSE "done"]
  /\ UNCHANGED <<pc, op, input, output, shared>>

\* inputMap["data"] = nil begins ...
BeginRestore(p) ==
  /\ Running(p, "restore")
  /\ shared' = [shared EXCEPT !.writers = @ \cup {p}]
  /\ proc' = [proc EXCEPT ![p].pc = "restoring"]
  /\ UNCHANGED <<pc, op, input, output>>

\* ... and ends.
EndRestore(p) ==
  /\ Running(p, "restoring")
  /\ shared' = [shared EXCEPT !.map.data = RawNil, !.writers = @ \ {p}]
  /\ proc' = [proc EXCEPT ![p].pc = "done"]
  /\ UNCHANGED <<pc, op, input, output>>

\* A call about to access the map while another call is writing it: the Go
\* runtime may abort the program (concurrent map read and map write).
Fatal(p) ==
  /\ pc = "concurrent"
  /\ ~shared.crashed
  /\ proc[p].pc \in {"lookup", "delete", "validate", "restore"}
  /\ shared.writers \ {p} # {}
  /\ shared' = [shared EXCEPT !.crashed = TRUE]
  /\ UNCHANGED <<pc, op, input, output, proc>>

NextConc ==
  \E p \in Procs :
    \/ Lookup(p)
    \/ BeginDelete(p)
    \/ EndDelete(p)
    \/ Validate(p)
    \/ BeginRestore(p)
    \/ EndRestore(p)
    \/ Fatal(p)

SpecConc == InitConc /\ [][NextConc]_vars


\* ------------------------------------------------------------------------
\* Builders (headerruleset.go, datumruleset.go, bodyruleset.go)
\* ------------------------------------------------------------------------
\* The rule sets are heap objects: shared.objects is the heap, an object's
\* address is its index, and output is the address the last builder call
\* returned.  A HeaderRuleSet points to its headerRules map (a Go map is a
\* reference); a SingleRuleSet points to its DatumRuleSet.  The rule sets of
\* the validation engine held by a DatumRuleSet are values: their With...
\* methods return a new rule set that the builder assigns to the clone.
MaxObjects == 5

RelationshipNames == {RelAuthor}

Objects == shared.objects

IsA(objs, i, class) == objs[i].class = class

Alloc(objs, obj) == Append(objs, obj)

\* Headers()
Headers(objs) ==
  Alloc(Alloc(objs, [class |-> "map", names |-> {}]),
        [class |-> "HeaderRuleSet", contentRequired |-> TRUE, extRuleSet |-> FALSE,
         profileRuleSet |-> FALSE, headerRules |-> Len(objs) + 1])

\* NewDatumRuleSet(typeName, attributesRuleSet)
NewDatumRuleSet(objs, typeName) ==
  Alloc(objs, [class |-> "DatumRuleSet", typeName |-> typeName, relationships |-> {},
               unknownRelationships |-> FALSE, unknownMeta |-> FALSE, required |-> FALSE])

\* HeaderRuleSet.clone keeping the map of the receiver instead of copying it.
HeaderCloneSharingMap(objs, h) ==
  Alloc(Alloc(objs, [class |-> "map", names |-> {}]),
        objs[h])

\* HeaderRuleSet.clone: a new rule set with a new map holding the entries
\* of the receiver's map.  The clone is the last object of the result.
HeaderClone(objs, h) ==
  Alloc(Alloc(objs, [class |-> "map", names |-> objs[objs[h].headerRules].names]),
        [objs[h] EXCEPT !.headerRules = Len(objs) + 1])

\* DatumRuleSet.clone and SingleRuleSet.clone: a shallow copy.
ShallowClone(objs, r) == Alloc(objs, objs[r])

\* The configuration a rule set validates with, pointers followed.
RECURSIVE Resolve(_, _)
Resolve(objs, i) ==
  IF IsA(objs, i, "HeaderRuleSet")
    THEN [contentRequired |-> objs[i].contentRequired, extRuleSet |-> objs[i].extRuleSet,
          profileRuleSet |-> objs[i].profileRuleSet,
          headerRules |-> objs[objs[i].headerRules].names]
  ELSE IF IsA(objs, i, "SingleRuleSet")
    THEN [required |-> objs[i].required, unknownDocumentMeta |-> objs[i].unknownDocumentMeta,
          datum |-> Resolve(objs, objs[i].datumRuleSet)]
  ELSE IF IsA(objs, i, "DatumRuleSet")
    THEN [typeName |-> objs[i].typeName, relationships |-> objs[i].relationships,
          unknownRelationships |-> objs[i].unknownRelationships,
          unknownMeta |-> objs[i].unknownMeta, required |-> objs[i].required]
  ELSE objs[i]

Families == {"HeaderRuleSet", "DatumRuleSet", "SingleRuleSet"}

\* The heap after construction: Headers(), NewDatumRuleSet(...), or
\* NewSingleRuleSet(...), whose datum rule set is
\* NewDatumRuleSet(...).WithRequired().
NewHeap(family) ==
  IF family = "HeaderRuleSet" THEN Headers(<<>>)
  ELSE IF family = "DatumRuleSet" THEN NewDatumRuleSet(<<>>, "articles")
  ELSE LET d == NewDatumRuleSet(<<>>, "articles")
           c == ShallowClone(d, 1)
           r == [c EXCEPT ![2].required = TRUE]
       IN Alloc(r, [class |-> "SingleRuleSet", datumRuleSet |-> 2,
                    unknownDocumentMeta |-> FALSE, required |-> FALSE])

InitBuild ==
  /\ pc = "build"
  /\ op = "Builder"
  /\ \E family \in Families :
       /\ input = family
       /\ shared = [objects |-> NewHeap(family)]
       /\ output = Len(NewHeap(family))
  /\ proc = NoProc

\* A builder call ends: the heap is objs and the call returned address ret.
Built(objs, ret) ==
  /\ pc = "build"
  /\ shared' = [objects |-> objs]
  /\ output' = ret
  /\ UNCHANGED <<pc, op, input, proc>>

Receivers(class) == {i \in 1..Len(Objects) : IsA(Objects, i, class)}

Room(n) == Len(Objects) + n <= MaxObjects

WithContentRequired ==
  \E h \in Receivers("HeaderRuleSet"), required \in BOOLEAN :
    /\ Room(2)
    /\ LET c == HeaderClone(Objects, h) IN
         Built([c EXCEPT ![Len(c)].contentRequired = required], Len(c))

WithExt ==
  \E h \in Receivers("HeaderRuleSet") :
    /\ Room(2)
    /\ LET c == HeaderClone(Objects, h) IN
         Built([c EXCEPT ![Len(c)].extRuleSet = TRUE], Len(c))

WithProfile ==
  \E h \in Receivers("HeaderRuleSet") :
    /\ Room(2)
    /\ LET c == HeaderClone(Objects, h) IN
         Built([c EXCEPT ![Len(c)].profileRuleSet = TRUE], Len(c))

\* c.headerRules[name] = ruleSet writes into the map the clone points to.
WithHeader ==
  \E h \in Receivers("HeaderRuleSet"), name \in HeaderNames :
    /\ Room(2)
    /\ LET c == HeaderClone(Objects, h)
           m == c[Len(c)].headerRules
       IN Built([c EXCEPT ![m].names = @ \cup {name}], Len(c))

DatumWithRelationship ==
  \E d \in Receivers("DatumRuleSet"), name \in RelationshipNames :
    /\ Room(1)
    /\ LET c == ShallowClone(Objects, d) IN
         Built([c EXCEPT ![Len(c)].relationships = @ \cup {name}], Len(c))

DatumWithUnknownRelationships ==
  \E d \in Receivers("DatumRuleSet") :
    /\ Room(1)
    /\ LET c == ShallowClone(Objects, d) IN
         Built([c EXCEPT ![Len(c)].unknownRelationships = TRUE], Len(c))

DatumWithUnknownMeta ==
  \E d \in Receivers("DatumRuleSet") :
    /\ Room(1)
    /\ LET c == ShallowClone(Objects, d) IN
         Built([c EXCEPT ![Len(c)].unknownMeta = TRUE], Len(c))

\* WithRequired returns the receiver itself when it is required already.
DatumWithRequired ==
  \E d \in Receivers("DatumRuleSet") :
    IF Objects[d].required THEN Built(Objects, d)
    ELSE /\ Room(1)
         /\ LET c == ShallowClone(Objects, d) IN
              Built([c EXCEPT ![Len(c)].required = TRUE], Len(c))

\* SingleRuleSet.WithRelationship: the clone gets the rule set returned by
\* the datum rule set's WithRelationship.
SingleWithRelationship ==
  \E s \in Receivers("SingleRuleSet"), name \in RelationshipNames :
    /\ Room(2)
    /\ LET c == ShallowClone(Objects, s)
           d == ShallowClone(c, c[Len(c)].datumRuleSet)
           e == [d EXCEPT ![Len(d)].relationships = @ \cup {name}]
       IN Built([e EXCEPT ![Len(c)].datumRuleSet = Len(d)], Len(c))

SingleWithUnknownRelationships ==
  \E s \in Receivers("SingleRuleSet") :
    /\ Room(2)
    /\ LET c == ShallowClone(Objects, s)
           d == ShallowClone(c, c[Len(c)].datumRuleSet)
           e == [d EXCEPT ![Len(d)].unknownRelationships = TRUE]
       IN Built([e EXCEPT ![Len(c)].datumRuleSet = Len(d)], Len(c))

WithUnknownDocumentMeta ==
  \E s \in Receivers("SingleRuleSet") :
    /\ Room(1)
    /\ LET c == ShallowClone(Objects, s) IN
         Built([c EXCEPT ![Len(c)].unknownDocumentMeta = TRUE], Len(c))

SingleWithRequired ==
  \E s \in Receivers("SingleRuleSet") :
    IF Objects[s].required THEN Built(Objects, s)
    ELSE /\ Room(1)
         /\ LET c == ShallowClone(Objects, s) IN
              Built([c EXCEPT ![Len(c)].required = TRUE], Len(c))

NextBuild ==
  \/ WithContentRequired
  \/ WithExt
  \/ WithProfile
  \/ WithHeader
  \/ DatumWithRelationship
  \/ DatumWithUnknownRelationships
  \/ DatumWithUnknownMeta
  \/ DatumWithRequired
  \/ SingleWithRelationship
  \/ SingleWithUnknownRelationships
  \/ WithUnknownDocumentMeta
  \/ SingleWithRequired

SpecBuild == InitBuild /\ [][NextBuild]_vars

\* ------------------------------------------------------------------------
\* Properties
\* ------------------------------------------------------------------------
Done(o) == pc = "done" /\ op = o

\* The spec errors a finished call has translated.
Translated ==
  IF Done("ErrorFromValidationError") THEN {output}
  ELSE IF Done("HeaderRuleSet.Apply") \/ Done("SingleRuleSet.Apply")
    THEN {output[i].holder[1] : i \in 1..Len(output)}
  ELSE {}

\* The source kind the finished call translated with.
TranslatedKind ==
  IF Done("ErrorFromValidationError") THEN input.kind
  ELSE IF Done("HeaderRuleSet.Apply") THEN SourceHeader
  ELSE SourcePointer

\* C1: every translated error has status "422" when the source kind is
\* pointer and "400" when it is parameter or header; every error of the
\* header validator therefore has status "400".
C1_StatusFromKind ==
  \A e \in Translated :
    e.status = IF TranslatedKind = SourcePointer THEN "422" ELSE "400"

EmptyContext == [method |-> "", id |-> <<>>]
GetIndexContext == [method |-> "GET", id |-> <<>>]

\* C2: under the empty context (no method, no id) every standard query
\* parameter accepts every value it accepts under GET with no id.
C2_EmptyContextAsGetIndex ==
  (Done("QueryRuleSet.Apply") /\ input.ctx = EmptyContext
     /\ StandardRuleSet(input.key, input.values, GetIndexContext).errs = {})
  => output.errs = {}

\* The rest of a relationship map is valid whatever its data member is.
RestValid(m) == m.links # "invalid" /\ m.meta # "invalid" /\ ~m.unknown

C4_InputUnchanged ==
  /\ Done("RelationshipRuleSet.Apply") => output.inputAfter = input
  /\ Done("DatumRuleSet.Apply") => output.inputAfter = input.in

\* C5: concurrent calls on the same input never abort the program, and each
\* returns the result and output it returns when it runs alone.
C5_ConcurrentAsAlone ==
  /\ ~shared.crashed
  /\ \A p \in DOMAIN proc :
       proc[p].pc = "done" =>
         /\ proc[p].res.errs = RelationshipApply(input).errs
         /\ proc[p].res.out = RelationshipApply(input).out

\* C6: after a successful resource-object validation the type of the output
\* is the configured type name, also when the input has no type member.
C6_TypeStamped ==
  (Done("DatumRuleSet.Apply") /\ output.errs = {}) => output.out.Type = input.cfg.typeName

C6_Witness ==
  /\ Done("DatumRuleSet.Apply")
  /\ output.errs = {}
  /\ input.in.type = "absent"
  /\ output.out.Type = TypeName

\* One of the three linkage variants, a collection holding identifiers only.
IsLinkage(v) ==
  /\ v.variant \in {"Nil", "Identifier", "Collection"}
  /\ v.variant = "Collection" => \A i \in 1..Len(v.items) : v.items[i].variant = "Identifier"

\* C7: a successful linkage validation yields Nil, Identifier or Collection,
\* never a raw value and never the nil interface, also for the data member
\* of a relationship.
C7_LinkageVariant ==
  /\ (Done("ResourceLinkageRuleSet.Apply") /\ output.errs = {}) => IsLinkage(output.value)
  /\ (Done("RelationshipRuleSet.Apply") /\ output.errs = {} /\ input.data # Absent)
       => IsLinkage(output.out.Data)

C7_Witness ==
  /\ Done("ResourceLinkageRuleSet.Apply")
  /\ input = RawNil
  /\ output.errs = {}
  /\ output.value = NilResourceLinkage

\* The members of x that are members of y too, with the same content.
Reproduces(y, x) ==
  /\ x.id # "absent" => y.id = x.id
  /\ x.type # "absent" => y.type = x.type
  /\ x.lid # "absent" => y.lid = x.lid
  /\ x.links # "absent" => y.links = x.links
  /\ x.meta # "absent" => y.meta = x.meta
  /\ x.attributes # Absent => (y.attributes # Absent /\ x.attributes.keys \subseteq y.attributes.keys)
  /\ \A name \in DOMAIN x.relationships :
       name \in DOMAIN y.relationships /\ y.relationships[name] = x.relationships[name]
  /\ x.extra \subseteq y.extra

\* C8: decoding a resource object and encoding it again (no sparse filter
\* asked for) reproduces every member of the original.
C8_RoundTrip ==
  Done("Datum.RoundTrip") =>
    (output.decoded.ok /\ Reproduces(output.encoded[1], input.x))

\* The attribute keys of an encoded resource object.
EmittedKeys(y) == IF y.attributes = Absent THEN {} ELSE y.attributes.keys

\* C9: decoding then encoding a resource object whose recorded attribute
\* fields are S emits attributes with exactly the keys S.
C9_AttributesAreFields ==
  (Done("Datum.RoundTrip") /\ output.decoded.ok)
    => EmittedKeys(output.encoded[1]) = output.decoded.Fields.names

\* The source fields of a spec error that are set.
SourceFields(e) == {f \in {"pointer", "parameter", "header"} : e.source[f] # <<>>}

\* C10 (as stated): every translated error has exactly one of source.pointer,
\* source.parameter and source.header set.
C10_ExactlyOneSource ==
  \A e \in Translated : Cardinality(SourceFields(e)) = 1

\* The path the translator reads from the failure for the kind.
PathFor(ve, kind) == IF kind = SourcePointer THEN ve.pathPointer ELSE ve.path

\* C10 (amended): a translated error never has more than one source field
\* set; it has exactly the field of its kind set when the path of the
\* failure is non-empty after a leading slash is removed, and no source at
\* all when the path of the failure is empty.
C10_SourceByPath ==
  /\ \A e \in Translated :
       /\ Cardinality(SourceFields(e)) <= 1
       /\ SourceFields(e) \subseteq {TranslatedKind}
  /\ Done("ErrorFromValidationError") =>
       /\ TrimPrefix(PathFor(input.ve, input.kind), <<"/">>) # <<>>
            => SourceFields(output) = {input.kind}
       /\ PathFor(input.ve, input.kind) = <<>> => ~output.source.present

C10_Witness ==
  /\ Done("ErrorFromValidationError")
  /\ PathFor(input.ve, input.kind) = <<>>
  /\ ~output.source.present


\* A request context that is an index read: GET or HEAD and no resource id.
IndexRead(ctx) == ctx.method \in {"GET", "HEAD"} /\ ctx.id = <<>>

\* C11: when a method is set, sort is forbidden unless the method is GET or
\* HEAD and there is no resource id; in that case it is not forbidden and a
\* single value is accepted.
C11_SortIndexReadOnly ==
  (Done("QueryRuleSet.Apply") /\ input.key = KeySort /\ input.ctx.method # "") =>
    IF IndexRead(input.ctx)
    THEN /\ CodeForbidden \notin output.errs
         /\ Len(input.values) = 1 => output.errs = {}
    ELSE output.errs = {CodeForbidden}

C11_Witness ==
  /\ Done("QueryRuleSet.Apply")
  /\ input.key = KeySort
  /\ input.ctx = [method |-> "GET", id |-> <<"1">>]
  /\ output.errs = {CodeForbidden}


\* C12: when a method is set, filter[KEY] is accepted if the request is an
\* index read (GET or HEAD, no resource id) and otherwise fails with a
\* forbidden error.
C12_FilterIndexReadOnly ==
  (Done("QueryRuleSet.Apply") /\ input.key = KeyFilterK /\ input.ctx.method # "") =>
    IF IndexRead(input.ctx) THEN output.errs = {}
    ELSE CodeForbidden \in output.errs

\* C13: page[size], page[after] and page[before] fail with a forbidden error
\* whenever the request has a resource id or a method other than GET or HEAD.
C13_PageIndexReadOnly ==
  (Done("QueryRuleSet.Apply")
     /\ input.key \in {KeyPageSize, KeyPageAfter, KeyPageBefore}
     /\ (input.ctx.id # <<>> \/ input.ctx.method \notin {"GET", "HEAD"}))
  => CodeForbidden \in output.errs


\* C14: every standard query parameter accepts a single value only; the same
\* name with two or more values is rejected with an error.
C14_SingleValueOnly ==
  (Done("QueryRuleSet.Apply") /\ Len(input.values) >= 2) => output.errs # {}

\* A name of one of the standard parameters or parameter families.
StandardName(key) == key \in RegisteredKeys \/ fieldKeyRule(key) \/ filterKeyRule(key)

\* C15: a query parameter name that is not a standard one is accepted if and
\* only if it has a character outside a-z (namespace:member names included);
\* every other name is rejected as unexpected.
C15_UnregisteredNames ==
  (Done("QueryStringBaseRuleSet.Apply") /\ ~StandardName(input.key)) =>
    IF (\E i \in 1..Len(input.key) : input.key[i] \notin LowerAZ) \/ extKeyRule(input.key)
    THEN output.errs = {}
    ELSE output.errs = {CodeUnexpected}

C15_Witness ==
  /\ Done("QueryStringBaseRuleSet.Apply")
  /\ input.key = <<"f","i","l","t","e","r">>
  /\ output.errs = {CodeUnexpected}


\* A document with nothing but a meta member the rule set has rules for.
MetaOnly(ruleSet, doc) ==
  /\ doc.data.k = "absent"
  /\ doc.meta = "empty" \/ (doc.meta = "unknown" /\ ruleSet.unknownDocumentMeta)
  /\ doc.included = "absent"
  /\ ~doc.errors
  /\ doc.extra = {}

\* C16: the data member is optional unless the rule set is required: a rule
\* set built with the required option rejects a document that has no data
\* member, and one built without it accepts a meta-only document.
C16_DataRequired ==
  Done("SingleRuleSet.Apply(document)") =>
    /\ (input.ruleSet.required /\ input.doc.data.k = "absent") => output.errs # {}
    /\ (~input.ruleSet.required /\ MetaOnly(input.ruleSet, input.doc)) => output.errs = {}

\* C17: a document with both a data member and a top-level errors array is
\* rejected by the document rule set.
C17_DataAndErrorsRejected ==
  (Done("SingleRuleSet.Apply(document)") /\ input.doc.data.k # "absent" /\ input.doc.errors)
    => output.errs # {}

\* A valid resource under data beside an errors array, nothing else wrong:
\* the errors key is the one failure.
C17_Witness ==
  /\ Done("SingleRuleSet.Apply(document)")
  /\ input.doc.data.k = "object"
  /\ input.doc.data.id = "string"
  /\ input.doc.data.type = TypeName
  /\ input.doc.errors
  /\ output.errs = {DatumError(CodeUnexpected, <<"errors">>)}


\* The independent problems of a parsed Content-Type of the right media
\* type: a parameter other than ext and profile, an ext value its rule set
\* rejects, a profile value its rule set rejects.
ContentTypeProblems(h, ct) ==
  (IF \E name \in ct.params : name # contentTypeParamExt /\ name # contentTypeParamProfile
   THEN {"parameter"} ELSE {})
  \cup (IF h.extRuleSet /\ contentTypeParamExt \in ct.params /\ ~ct.extOk THEN {"ext"} ELSE {})
  \cup (IF h.profileRuleSet /\ contentTypeParamProfile \in ct.params /\ ~ct.profileOk
        THEN {"profile"} ELSE {})

\* C18: header validation reports every failure of the request: the result
\* holds one error for each problem of the media-type header and one for
\* each registered header that fails.
C18_EveryHeaderFailure ==
  (/\ Done("HeaderRuleSet.Apply")
   /\ input.in.kind = "http"
   /\ input.in.headers.ct.raw = "parsed"
   /\ input.in.headers.ct.mediaType = MediaTypeJSONAPI)
    => Len(output) = Cardinality(ContentTypeProblems(input.h, input.in.headers.ct))
                     + Cardinality(input.in.headers.bad)


\* C19: the cast of an object to a resource identifier fails unless the
\* object has a type member and that member is a JSON string.
C19_IdentifierNeedsStringType ==
  (Done("ResourceLinkageRuleSet.Apply") /\ input.k = "object" /\ input.type # "string")
    => output.errs # {}


\* The resource object under data as the JSON text the codec would decode.
DatumJSON(data) ==
  [id |-> "s", type |-> "s", lid |-> "absent", attributes |-> data.attributes,
   relationships |-> <<>>, links |-> "absent", meta |-> "absent", extra |-> {}]

\* C20: after a successful validation of a document whose data member is a
\* resource object, the field list of the resource is set to exactly the
\* keys present under data.attributes in the input, and is the field list
\* Datum.UnmarshalJSON records for the same resource object.
C20_PresentAttributeFields ==
  (/\ Done("SingleRuleSet.Apply(document)")
   /\ output.errs = {}
   /\ input.doc.data.k = "object")
    => /\ output.Data[1].Fields =
            FieldList(IF input.doc.data.attributes = Absent THEN {}
                      ELSE input.doc.data.attributes.keys)
       /\ output.Data[1].Fields = UnmarshalJSON(DatumJSON(input.doc.data), AttrMap).Fields


C22_TypeMismatchOneError ==
  (/\ Done("DatumRuleSet.Apply")
   /\ input.in.type # "absent"
   /\ input.in.type # input.cfg.typeName)
    => /\ Cardinality({e \in output.errs : e.path = <<"type">>}) = 1
       /\ (input.in.id # "number" /\ input.in.attributes = "valid"
           /\ input.in.relationships = <<>> /\ input.in.extra = {})
            => Cardinality(output.errs) = 1

C22_Witness ==
  /\ Done("DatumRuleSet.Apply")
  /\ input.in.type = "bogus"
  /\ input.in.id = "string"
  /\ input.in.relationships = <<>>
  /\ output.errs = {DatumError(CodePattern, <<"type">>)}


\* C23: a string that is not valid JSON yields exactly one error: its code
\* is the encoding code, it is translated pointer-kind (status "422", no
\* parameter and no header), and its pointer is the path the document was
\* validated at, which is the document root (the empty pointer when the
\* context carries no path).
C23_InvalidJSONOneError ==
  Done("SingleRuleSet.Apply") =>
    /\ Len(output) = 1
    /\ output[1].code = CodeEncoding
    /\ output[1].holder[1].code = CodeEncoding
    /\ output[1].holder[1].status = "422"
    /\ output[1].holder[1].source.parameter = <<>>
    /\ output[1].holder[1].source.header = <<>>
    /\ output[1].holder[1].source.pointer = jsonPointerSerializer(input.path)

C23_Witness ==
  /\ Done("SingleRuleSet.Apply")
  /\ input.path = <<>>
  /\ Len(output) = 1
  /\ output[1].holder[1].source.pointer = <<>>


\* The token a sort entry stands for.
SortToken(p) == (IF p.Descending THEN <<"-">> ELSE <<>>) \o p.Field

\* The number of commas of a value.
Commas(s) == Cardinality({i \in 1..Len(s) : s[i] = ","})

\* C24: an accepted sort value is parsed into one entry per comma-separated
\* token, in order: the entries' tokens joined by commas give the value
\* back, no field holds a comma, an entry is descending exactly when its
\* token begins with '-' (the field is the rest), and an empty token is the
\* zero-value entry.
C24_SortEntries ==
  (Done("QueryRuleSet.Apply") /\ input.key = KeySort /\ output.errs = {}) =>
    LET v == input.values[1]
        out == output.value
    IN /\ Len(out) = Commas(v) + 1
       /\ Join([i \in 1..Len(out) |-> SortToken(out[i])], <<",">>) = v
       /\ \A i \in 1..Len(out) :
            /\ Commas(out[i].Field) = 0
            /\ ~out[i].Descending => (out[i].Field = <<>> \/ out[i].Field[1] # "-")

C24_Witness ==
  /\ Done("QueryRuleSet.Apply")
  /\ input.key = KeySort
  /\ input.values = <<<<"a", ",", ",", "-", "b">>>>
  /\ output.errs = {}
  /\ output.value = <<SortParam(<<"a">>, FALSE), SortParam(<<>>, FALSE), SortParam(<<"b">>, TRUE)>>


\* A name made only of the characters a-z.
OnlyLowerAZ(name) == \A i \in 1..Len(name) : name[i] \in LowerAZ

\* C25: the checked registration fails, at registration, if and only if the
\* name is made only of a-z and is neither sort nor include; the unsafe
\* registration never fails.
C25_RegistrationFails ==
  /\ Done("QueryRuleSet.WithParam") =>
       (output.panicked <=> (OnlyLowerAZ(input.name) /\ input.name \notin {KeySort, KeyInclude}))
  /\ Done("QueryRuleSet.WithParam") /\ ~output.panicked =>
       input.name \in output.ruleSet[1].params
  /\ Done("QueryRuleSet.WithParamUnsafe") =>
       ~output.panicked /\ input.name \in output.ruleSet[1].params

C25_Witness ==
  /\ Done("QueryRuleSet.WithParam")
  /\ input.name = <<"u","n","k","n","o","w","n">>
  /\ output.panicked

\* C30: a parameter registered through the unsafe path is accepted whenever
\* its value satisfies the registered handler, whatever its name, on every
\* rule set, the ones derived from the base rule set included.
C30_UnsafeParamAccepted ==
  (/\ Done("QueryRuleSet.Apply(registered)")
   /\ input.key \in input.q.params
   /\ input.handlerOk)
    => output.errs = {}


\* C26: on an index GET or HEAD a single page[size] value is accepted if and
\* only if it is an integer n with 1 <= n <= 100: 0 and 101 are rejected,
\* 1 and 100 are accepted.
C26_PageSizeRange ==
  (/\ Done("QueryRuleSet.Apply")
   /\ input.key = KeyPageSize
   /\ IndexRead(input.ctx)
   /\ Len(input.values) = 1)
    => LET v == input.values[1] IN
         /\ output.errs = {} <=> (IsInt(v) /\ IntValue(v) >= 1 /\ IntValue(v) <= 100)
         /\ v \in {<<"0">>, <<"1","0","1">>} => output.errs # {}
         /\ v \in {<<"1">>, <<"1","0","0">>} => output.errs = {}

C26_Witness ==
  /\ Done("QueryRuleSet.Apply")
  /\ input.key = KeyPageSize
  /\ input.ctx = [method |-> "HEAD", id |-> <<>>]
  /\ input.values = <<<<"1","0","0">>>>
  /\ output.errs = {}


\* Some stored key is the name, letter case aside.
Stored(keys, name) == \E k \in keys : EqualFold(k, name)

\* C27: the header validator finds the media-type header and every
\* registered header whatever the letter case of the key it is stored
\* under: a multimap that stores a valid media type and a valid value for
\* every registered header, under any casing, is accepted.
C27_CaseInsensitiveLookup ==
  (/\ Done("HeaderRuleSet.Apply(multimap)")
   /\ Stored(input.keys, ContentTypeName)
   /\ \A name \in input.h.headerRules : Stored(input.keys, name))
    => output = <<>>


\* The resource-object validation of a resource whose only non-standard
\* top-level keys are extra.
ValidatedExtra(extra) ==
  datumValidator([typeName |-> TypeName, relationships |-> {}, unknownRelationships |-> FALSE],
                 [id |-> "string", type |-> TypeName, attributes |-> "valid",
                  relationships |-> <<>>, extra |-> extra])

\* C28: the codec and the resource-object validator classify the top-level
\* keys alike: decode captures a non-standard key as an @-member or as an
\* extension member exactly when the validator routes it into that bucket,
\* and captures no key the validator rejects as unknown.
C28_SameClassification ==
  (Done("Datum.RoundTrip") /\ output.decoded.ok) =>
    LET v == ValidatedExtra(input.x.extra) IN
      /\ output.decoded.AtMembers = v.out.AtMembers
      /\ output.decoded.ExtensionMembers = v.out.ExtensionMembers
      /\ \A key \in input.x.extra :
           DatumError(CodeUnexpected, <<Concat(key)>>) \in v.errs
             => key \notin (output.decoded.AtMembers \cup output.decoded.ExtensionMembers)


\* The translation of an already translated error, seen through its wrapper.
Retranslated(e, kind) == ErrorFromValidationError(jsonAPIErrorWrapper(e), kind)

\* C29: translating an already translated error again with the same source
\* kind changes nothing: status, code, title, detail, links, meta and source
\* are those of the first translation.
C29_RetranslationIdempotent ==
  Done("ErrorFromValidationError") => Retranslated(output, input.kind) = output

====
